---- MODULE Spec2Model ----
(***************************************************************************)
(* Model of src/main.py: a FastAPI application that proxies POST /generate *)
(* to a local Ollama server behind a fastapi-limiter rate gate             *)
(* (RateLimiter(times=5, minutes=1)) whose counters live in Redis.         *)
(*                                                                         *)
(* The requests in flight form a bag; each moves through the handler's     *)
(* suspension points: received -> rate gate (the dependency, one atomic    *)
(* Lua script in the store) -> upstream call -> get_remaining -> done.     *)
(* Time is counted in seconds and advances in steps of Step seconds; a key *)
(* of the store is gone from the step at which its lifetime ends.  The     *)
(* store keeps its keys while it is unreachable.  One client is modelled:  *)
(* the limiter's key is the client's address, the keys of different        *)
(* clients never meet, and every property below is about one client.       *)
(***************************************************************************)
EXTENDS Integers, Sequences, FiniteSets, Bags, TLC

\* ------------------------------------------------------------- constants

\* RateLimiter(times=5, ...)
Limit == 5
\* RateLimiter(..., minutes=1): the key's lifetime, in seconds
Window == 60

\* ---------------------------------------------------------------- bounds

\* requests in flight at once
MaxInflight == 2
\* clock steps per counting window
TicksPerWindow == 3
\* clock steps the model runs for
MaxTicks == 3

Step == Window \div TicksPerWindow
Horizon == MaxTicks * Step

\* request.client.host values (the limiter's default identifier)
Clients == {"10.0.0.1"}

\* What the upstream server may answer to the one POST of a request.
Replies ==
    { [kind |-> "transport", status |-> 0, text |-> ""],
      [kind |-> "http", status |-> 200, text |-> "{json}"],
      [kind |-> "http", status |-> 200, text |-> "not json"],
      [kind |-> "http", status |-> 404, text |-> "model not found"],
      [kind |-> "http", status |-> 500, text |-> "out of memory"] }
NoReply == [kind |-> "none", status |-> 0, text |-> ""]

VARIABLES
    app,            \* "starting" until the startup event has run, then "serving"
    storeUp,        \* whether redis://localhost:6379 answers right now
    limiterRedis,   \* FastAPILimiter.redis: "None" or "conn"
    lua_sha,        \* FastAPILimiter.lua_sha: "None" or "sha"
    now,            \* seconds since the process started
    counter,        \* the store: value of each client's key, 0 when the key is absent
    expireAt,       \* the store: when each client's key expires, 0 when absent
    admits,         \* history: requests admitted since the client's key was created
    winReqs,        \* history: requests the script evaluated since the key was created
    reqLog,         \* history: times of the client's last script-evaluated requests
    req,            \* the requests in flight: a bag of request records
    health          \* the last GET /health answer

vars == <<app, storeUp, limiterRedis, lua_sha, now, counter, expireAt,
          admits, winReqs, reqLog, req, health>>

\* ------------------------------------------------------------- responses

NoResp == [status |-> 0, detail |-> <<>>, remaining |-> {}]
Resp(status, detail, remaining) ==
    [status |-> status, detail |-> detail, remaining |-> remaining]

\* A request as received: nothing has acted on it yet.
Fresh ==
    [pc |-> "gate", client |-> CHOOSE c \in Clients : TRUE, hasPrompt |-> TRUE,
     gate |-> "none", admitted |-> FALSE, count |-> 0, exp |-> 0,
     prior |-> 0, nth |-> 0, revived |-> FALSE, calls |-> 0, up |-> NoReply, resp |-> NoResp]

NoHealth == [status |-> "none", redis_status |-> "none"]

Min(a, b) == IF a < b THEN a ELSE b

Init ==
    /\ app = "starting"
    /\ storeUp \in BOOLEAN
    /\ limiterRedis = "None"
    /\ lua_sha = "None"
    /\ now = 0
    /\ counter = [c \in Clients |-> 0]
    /\ expireAt = [c \in Clients |-> 0]
    /\ admits = [c \in Clients |-> 0]
    /\ winReqs = [c \in Clients |-> 0]
    /\ reqLog = [c \in Clients |-> <<>>]
    /\ req = EmptyBag
    /\ health = NoHealth


\* ------------------------------------------------------------ the store

\* redis.script_load inside FastAPILimiter.init: the first command sent to
\* the store. It raises when the store does not answer, which startup's
\* except clause swallows, and lua_sha keeps its class default None.
script_load(up) == IF up THEN "sha" ELSE "None"

\* LuaScript with the limit compared before the increment is counted.
LuaScriptOffByOne(current, ttl) ==
    IF current > 0
    THEN IF current > Limit
         THEN [pexpire |-> ttl, value |-> current, fresh |-> FALSE]
         ELSE [pexpire |-> 0, value |-> current + 1, fresh |-> FALSE]
    ELSE [pexpire |-> 0, value |-> 1, fresh |-> TRUE]

\* LuaScript with the expiry set again on every increment.
LuaScriptSliding(current, ttl) ==
    IF current > 0
    THEN IF current + 1 > Limit
         THEN [pexpire |-> ttl, value |-> current, fresh |-> FALSE]
         ELSE [pexpire |-> 0, value |-> current + 1, fresh |-> TRUE]
    ELSE [pexpire |-> 0, value |-> 1, fresh |-> TRUE]

\* The Lua script RateLimiter evaluates, atomically, in the store:
\*   current = GET key or 0
\*   current > 0 and current + 1 > limit : return PTTL key   (no write)
\*   current > 0                          : INCR key; return 0
\*   otherwise                            : SET key 1 PX window; return 0
LuaScript(current, ttl) ==
    IF current > 0
    THEN IF current + 1 > Limit
         THEN [pexpire |-> ttl, value |-> current, fresh |-> FALSE]
         ELSE [pexpire |-> 0, value |-> current + 1, fresh |-> FALSE]
    ELSE [pexpire |-> 0, value |-> 1, fresh |-> TRUE]

\* GateFault of a limiter that loads the script when it has none.
GateFaultIgnoringSha(redis, sha, up) ==
    IF redis = "None" THEN "NotInitialised"
    ELSE IF ~up THEN "ConnectionError"
    ELSE "none"

\* What makes the dependency raise before the script runs: FastAPILimiter.redis
\* unset, the store not answering, or EVALSHA given lua_sha = None.
GateFault(redis, sha, up) ==
    IF redis = "None" THEN "NotInitialised"
    ELSE IF ~up THEN "ConnectionError"
    ELSE IF sha = "None" THEN "DataError"
    ELSE "none"

\* A callback that reports the rejection and returns.
http_callback_returns(pexpire) == "return"

\* The limiter's default callback for pexpire # 0 raises HTTPException(429),
\* which rate_limit_exceeded_handler turns into the fixed body.
http_callback(pexpire) == "raise429"

rate_limit_exceeded_handler ==
    Resp(429, <<"Too many requests. Please slow down.">>, {})

\* PromptRequest: prompt is the only required field.
PromptRequest(hasPrompt) == hasPrompt

\* ---------------------------------------------------------- the handler

\* A POST that is attempted a second time.
PostWithRetry(calls) == calls + 2

\* client.post(...): one attempt, no retry.
Post(calls) == calls + 1

\* A status check that lets 4xx answers through.
UpstreamFailedOnly5xx(status) == status >= 500

\* if response.status_code != 200
UpstreamFailed(status) == status # 200

\* str(e) of the HTTPException raised at line 95 and caught at line 107:
\* Starlette's HTTPException.__str__ gives "<status_code>: <detail>".
StrHTTPException(status, detail) == <<ToString(status), ": ">> \o detail

\* except Exception as e: raise HTTPException(500, "Error communicating ...")
HandlerError(str_e) ==
    Resp(500, <<"Error communicating with Ollama: ">> \o str_e, {})

\* An except clause that gives the unit back.
CounterRefunded(n) == IF n > 0 THEN n - 1 ELSE n

\* The except clause leaves the client's counter as the gate left it.
CounterAfterError(n) == n

\* An exception raised by the dependency reaches no handler of the application.
InternalServerError == Resp(500, <<"Internal Server Error">>, {})

\* ---------------------------------------------------------------- actions

\* The event loop runs one coroutine at a time, from one await to the next.
\* "resolved" (the dependency has returned, the handler has not started) and
\* "done" (the response is built, not yet sent) are points inside such a run:
\* nothing else happens until the request has left them.
Settled == health = NoHealth /\ \A r \in BagToSet(req) : r.pc \notin {"resolved", "done"}

InFlight == BagToSet(req)
Becomes(old, new) == (req (-) SetToBag({old})) (+) SetToBag({new})

startup ==
    /\ app = "starting"
    /\ limiterRedis' = "conn"
    /\ lua_sha' = script_load(storeUp)
    /\ app' = "serving"
    /\ UNCHANGED <<storeUp, now, counter, expireAt, admits, winReqs, reqLog,
                   req, health>>

StoreFails ==
    /\ app = "serving"
    /\ Settled
    /\ storeUp
    /\ storeUp' = FALSE
    /\ UNCHANGED <<app, limiterRedis, lua_sha, now, counter, expireAt, admits,
                   winReqs, reqLog, req, health>>

StoreRecovers ==
    /\ app = "serving"
    /\ Settled
    /\ ~storeUp
    /\ storeUp' = TRUE
    /\ UNCHANGED <<app, limiterRedis, lua_sha, now, counter, expireAt, admits,
                   winReqs, reqLog, req, health>>

Recent(log, t) == SelectSeq(log, LAMBDA x : x > t - Window)

\* Time passes; the store drops the keys whose lifetime has ended.
Tick ==
    /\ now < Horizon
    /\ Settled
    /\ now' = now + Step
    /\ LET gone(c) == counter[c] > 0 /\ expireAt[c] <= now'
       IN  /\ counter' = [c \in Clients |-> IF gone(c) THEN 0 ELSE counter[c]]
           /\ expireAt' = [c \in Clients |-> IF gone(c) THEN 0 ELSE expireAt[c]]
           /\ admits' = [c \in Clients |-> IF gone(c) THEN 0 ELSE admits[c]]
           /\ winReqs' = [c \in Clients |->
                            IF gone(c) THEN (IF winReqs[c] > Limit THEN Limit + 1 ELSE 0)
                            ELSE winReqs[c]]
    /\ reqLog' = [c \in Clients |-> Recent(reqLog[c], now')]
    /\ UNCHANGED <<app, storeUp, limiterRedis, lua_sha, req, health>>

\* POST /generate is received and its JSON body read.
Receive(c, p) ==
    /\ app = "serving"
    /\ Settled
    /\ BagCardinality(req) < MaxInflight
    /\ req' = req (+) SetToBag({[Fresh EXCEPT !.client = c, !.hasPrompt = p]})
    /\ UNCHANGED <<app, storeUp, limiterRedis, lua_sha, now, counter, expireAt,
                   admits, winReqs, reqLog, health>>

Last(log, n) == IF Len(log) <= n THEN log ELSE SubSeq(log, Len(log) - n + 1, Len(log))

\* Depends(RateLimiter(times=5, minutes=1)): FastAPI solves the dependency
\* before it validates the body. The dependency raises on a fault, evaluates
\* the script otherwise, and hands a non-zero pexpire to the callback.
RateLimiter(q) ==
    /\ q.pc = "gate"
    /\ Settled
    /\ LET c == q.client
           fault == GateFault(limiterRedis, lua_sha, storeUp)
           r == LuaScript(counter[c], expireAt[c] - now)
           exp == IF r.fresh THEN now + Window ELSE expireAt[c]
           evaluated == IF r.fresh THEN 1 ELSE Min(winReqs[c] + 1, Limit + 1)
           judged == [q EXCEPT !.gate = "script", !.admitted = (r.pexpire = 0),
                                    !.count = r.value, !.exp = exp,
                                    !.prior = Len(reqLog[c]), !.nth = evaluated,
                                    !.revived = (counter[c] = 0 /\ winReqs[c] > Limit)]
       IN  IF fault # "none"
           THEN /\ req' = Becomes(q, [q EXCEPT !.pc = "done", !.gate = "error",
                                                     !.resp = InternalServerError])
                /\ UNCHANGED <<counter, expireAt, admits, winReqs, reqLog>>
           ELSE /\ counter' = [counter EXCEPT ![c] = r.value]
                /\ expireAt' = [expireAt EXCEPT ![c] = exp]
                /\ admits' = [admits EXCEPT ![c] =
                                IF r.fresh THEN 1
                                ELSE IF r.pexpire = 0 THEN @ + 1 ELSE @]
                /\ winReqs' = [winReqs EXCEPT ![c] = evaluated]
                /\ reqLog' = [reqLog EXCEPT ![c] = Last(Append(@, now), Limit)]
                /\ req' = Becomes(q,
                     IF r.pexpire # 0 /\ http_callback(r.pexpire) = "raise429"
                     THEN [judged EXCEPT !.pc = "done",
                                         !.resp = rate_limit_exceeded_handler]
                     ELSE [judged EXCEPT !.pc = "resolved"])
    /\ UNCHANGED <<app, storeUp, limiterRedis, lua_sha, now, health>>

\* The dependency has returned: the body is validated against PromptRequest
\* and generate_code runs up to its first await, the upstream POST.
generate_code(q) ==
    /\ q.pc = "resolved"
    /\ req' = Becomes(q,
         IF ~PromptRequest(q.hasPrompt)
         THEN [q EXCEPT !.pc = "done",
                        !.resp = Resp(422, <<"Field required: prompt">>, {})]
         ELSE [q EXCEPT !.pc = "upstream", !.calls = Post(@),
                        !.prior = 0, !.nth = 0, !.revived = FALSE])
    /\ UNCHANGED <<app, storeUp, limiterRedis, lua_sha, now, counter, expireAt,
                   admits, winReqs, reqLog, health>>

\* Whether the key that admitted q is still the client's key.
SameWindow(q) == counter[q.client] > 0 /\ expireAt[q.client] = q.exp

\* The upstream POST returns or fails: lines 83-98 and the except clause.
UpstreamReply(q, reply) ==
    /\ q.pc = "upstream"
    /\ Settled
    /\ LET c == q.client
           errored(str_e) == [q EXCEPT !.pc = "done", !.up = reply,
                                           !.resp = HandlerError(str_e)]
           ok == reply.kind = "http" /\ ~UpstreamFailed(reply.status)
                    /\ reply.text = "{json}"
       IN  /\ req' = Becomes(q,
                IF reply.kind = "transport"
                THEN errored(<<"ConnectError">>)
                ELSE IF UpstreamFailed(reply.status)
                THEN errored(StrHTTPException(500, <<"Ollama error: ", reply.text>>))
                ELSE IF reply.text # "{json}"
                THEN errored(<<"JSONDecodeError">>)
                ELSE [q EXCEPT !.pc = "remaining", !.up = reply])
           /\ counter' = [counter EXCEPT ![c] =
                IF ok THEN @ ELSE CounterAfterError(@)]
    /\ UNCHANGED <<app, storeUp, limiterRedis, lua_sha, now, expireAt, admits,
                   winReqs, reqLog, health>>

\* "requests_remaining": await FastAPILimiter.get_remaining(request), inside
\* the try. The name is not defined under src/. Where the limiter class has no
\* such attribute the lookup raises AttributeError, which the except clause
\* turns into a 500. Where it has one, it can only read the client's counter
\* as it stands when it is called: the gate's own decision is not kept.
get_remaining(q) ==
    /\ q.pc = "remaining"
    /\ Settled
    /\ LET c == q.client
           raised(str_e) ==
               /\ req' = Becomes(q, [q EXCEPT !.pc = "done",
                                              !.resp = HandlerError(str_e)])
               /\ counter' = [counter EXCEPT ![c] = CounterAfterError(@)]
       IN  \/ raised(<<"AttributeError">>)
           \/ IF storeUp
              THEN /\ req' = Becomes(q, [q EXCEPT !.pc = "done",
                             !.resp = Resp(200, <<>>, {Limit - counter[c]})])
                   /\ UNCHANGED counter
              ELSE raised(<<"ConnectionError">>)
    /\ UNCHANGED <<app, storeUp, limiterRedis, lua_sha, now, expireAt,
                   admits, winReqs, reqLog, health>>

\* The response has been sent; the request is over.
Release(q) ==
    /\ q.pc = "done"
    /\ req' = req (-) SetToBag({q})
    /\ UNCHANGED <<app, storeUp, limiterRedis, lua_sha, now, counter, expireAt,
                   admits, winReqs, reqLog, health>>

health_check ==
    /\ app = "serving"
    /\ Settled
    /\ health' = [status |-> "healthy",
                  redis_status |-> IF limiterRedis # "None" THEN "active"
                                   ELSE "inactive"]
    /\ UNCHANGED <<app, storeUp, limiterRedis, lua_sha, now, counter, expireAt,
                   admits, winReqs, reqLog, req>>

HealthSent ==
    /\ health # NoHealth
    /\ health' = NoHealth
    /\ UNCHANGED <<app, storeUp, limiterRedis, lua_sha, now, counter, expireAt,
                   admits, winReqs, reqLog, req>>

Next ==
    \/ startup
    \/ StoreFails
    \/ StoreRecovers
    \/ Tick
    \/ \E c \in Clients, p \in BOOLEAN : Receive(c, p)
    \/ \E q \in InFlight : RateLimiter(q)
    \/ \E q \in InFlight : generate_code(q)
    \/ \E q \in InFlight, reply \in Replies : UpstreamReply(q, reply)
    \/ \E q \in InFlight : get_remaining(q)
    \/ \E q \in InFlight : Release(q)
    \/ health_check
    \/ HealthSent

Spec == Init /\ [][Next]_vars

\* ------------------------------------------------------------------ claims

Contains(detail, tok) == \E i \in 1..Len(detail) : detail[i] = tok
Done(q) == q.pc = "done"
\* The gate's decision for q, as the spec's RateLimitDecision states it.
DecisionRemaining(q) == Limit - q.count

\* C1: a request with a valid payload makes exactly one upstream call if and
\* only if the Rate Gate admitted it: never more than one call, none before
\* the gate has decided, none when it was rejected or the gate raised, and
\* one as soon as the handler body has started.
C1_OneCallIffAdmitted ==
    \A q \in InFlight :
        q.hasPrompt =>
            /\ q.calls \in {0, 1}
            /\ q.calls = 1 => q.admitted
            /\ q.pc \in {"upstream", "remaining", "done"} => (q.calls = 1 <=> q.admitted)
            /\ q.pc = "gate" => q.calls = 0

\* C1 witness: an admitted request whose single call failed in transport has
\* been answered without a second attempt.
C1_Witness ==
    \E q \in InFlight :
        /\ Done(q) /\ q.hasPrompt /\ q.admitted
        /\ q.up.kind = "transport" /\ q.calls = 1 /\ q.resp.status = 500

\* C2 as claimed: a request the gate evaluates when the client already sent 5
\* or more evaluated requests in the 60 seconds before it is rejected with 429,
\* remaining 0, and makes no upstream call.
C2_Original ==
    \A q \in InFlight :
        (q.gate = "script" /\ q.prior >= Limit) =>
            /\ ~q.admitted
            /\ DecisionRemaining(q) = 0
            /\ q.calls = 0
            /\ Done(q) => q.resp.status = 429

\* C2 as amended: within one counting window (the lifetime of the client's
\* key) the 6th and later requests the gate evaluates are answered with the
\* fixed 429 body, the decision's remaining being 0, and make no upstream call.
C2_SixthInCountingWindowRejected ==
    \A q \in InFlight :
        (q.gate = "script" /\ q.nth > Limit) =>
            /\ Done(q)
            /\ ~q.admitted
            /\ q.resp = rate_limit_exceeded_handler
            /\ DecisionRemaining(q) = 0
            /\ q.calls = 0

\* C2 witness: a 6th request of a counting window has been answered 429.
C2_Witness ==
    \E q \in InFlight :
        Done(q) /\ q.gate = "script" /\ q.nth = Limit + 1 /\ q.resp.status = 429

C4_Original ==
    \A q \in InFlight :
        ~q.hasPrompt =>
            /\ q.gate # "script"
            /\ ~q.admitted
            /\ q.resp.status # 429
            /\ q.calls = 0

\* C5: under every interleaving at most 5 requests of a client are admitted
\* during the lifetime of its key, and no two requests in flight were admitted
\* with the same count by the same key.
C5_AtMostLimitAdmitted ==
    /\ \A c \in Clients : admits[c] <= Limit
    /\ \A q1, q2 \in InFlight :
          (/\ q1.admitted /\ q2.admitted
           /\ q1.client = q2.client /\ q1.exp = q2.exp /\ q1.count = q2.count)
          => (q1 = q2 /\ CopiesIn(q1, req) = 1)

\* C5 witness: the 5th request of a key has just been admitted while another
\* request of the same client was waiting at the gate.
C5_Witness ==
    \E q1, q2 \in InFlight :
        /\ q1.pc = "resolved" /\ q1.admitted /\ q1.count = Limit
        /\ q2.pc = "gate" /\ q2.client = q1.client
        /\ admits[q1.client] = Limit

\* C6: an admitted request whose upstream answer has a non-200 status is
\* answered 500 with a detail that contains "Ollama error: " and the upstream
\* body text, never 200.
C6_UpstreamStatusMapsTo500 ==
    \A q \in InFlight :
        (q.up.kind = "http" /\ q.up.status # 200) =>
            /\ Done(q)
            /\ q.resp.status = 500
            /\ Contains(q.resp.detail, "Ollama error: ")
            /\ Contains(q.resp.detail, q.up.text)

\* C6 witness: an upstream 404 has been answered 500.
C6_Witness ==
    \E q \in InFlight :
        Done(q) /\ q.up.kind = "http" /\ q.up.status = 404 /\ q.resp.status = 500

\* C7 as claimed: when the store was unreachable at startup every valid request
\* is admitted and forwarded upstream; none is answered 429 or fails because
\* of the store.
C7_Original ==
    (app = "serving" /\ lua_sha = "None") =>
        \A q \in InFlight :
            (Done(q) /\ q.hasPrompt) =>
                /\ q.gate # "error"
                /\ q.resp.status # 429
                /\ q.calls = 1

\* C7 as amended: when the store was unreachable at startup the process
\* serves, but the dependency raises for every POST /generate, whether or not
\* the store has come back since: each is answered 500 before the handler body
\* runs, none is admitted, counted, forwarded upstream or answered 429.
C7_GateRaisesAfterFailedStartup ==
    (app = "serving" /\ lua_sha = "None") =>
        /\ \A c \in Clients : counter[c] = 0
        /\ \A q \in InFlight :
              /\ q.pc \in {"gate", "done"}
              /\ q.calls = 0
              /\ ~q.admitted
              /\ Done(q) => (q.gate = "error" /\ q.resp = InternalServerError)

\* C7 witness: after a failed startup and with the store reachable again, a
\* valid request has been answered 500 by the dependency.
C7_Witness ==
    /\ app = "serving" /\ lua_sha = "None" /\ storeUp
    /\ \E q \in InFlight : Done(q) /\ q.hasPrompt /\ q.resp.status = 500

\* C8 as claimed: /health answers "healthy", with redis_status "active" exactly
\* when the startup initialisation succeeded and "inactive" otherwise.
C8_Original ==
    health # NoHealth =>
        /\ health.status = "healthy"
        /\ health.redis_status = (IF lua_sha = "sha" THEN "active" ELSE "inactive")

\* C9: a client's key expires one window after the request that created it;
\* no later request, admitted or rejected, moves that expiry; the key is gone
\* exactly from then on; and the first request the gate evaluates after a key
\* under which the client was rejected has expired is admitted with count 1.
C9_KeyStep ==
    \A c \in Clients :
        /\ (counter[c] > 0 /\ counter'[c] > 0) => expireAt'[c] = expireAt[c]
        /\ (counter[c] = 0 /\ counter'[c] > 0) =>
               (counter'[c] = 1 /\ expireAt'[c] = now + Window)
        /\ counter[c] > 0 => (counter'[c] = 0 <=> now' >= expireAt[c])
C9_Revived ==
    \A q \in InFlight :
        q.revived => (q.admitted /\ q.count = 1 /\ q.exp = now + Window)
C9_FixedExpiry == []C9_Revived /\ [][C9_KeyStep]_vars

\* C9 witness: a client rejected under its previous key has been admitted with
\* count 1 by the first request after that key expired.
C9_Witness ==
    \E q \in InFlight : q.revived /\ q.admitted /\ q.count = 1 /\ now >= Window

\* C10: a request that ends in 500 after it was admitted leaves the counter at
\* least at its own count while the key lives; the counter only ever falls by
\* expiry; so when the failing request took the last unit, the script rejects
\* the next request of the window.
C10_CounterStep ==
    \A c \in Clients :
        counter'[c] < counter[c] => (counter'[c] = 0 /\ now' >= expireAt[c])
C10_Kept ==
    \A q \in InFlight :
        (Done(q) /\ q.admitted /\ q.resp.status = 500 /\ SameWindow(q)) =>
            /\ counter[q.client] >= q.count
            /\ q.count = Limit =>
                 LuaScript(counter[q.client], expireAt[q.client] - now).pexpire # 0
C10_NoRefund == []C10_Kept /\ [][C10_CounterStep]_vars

\* C10 witness: the 5th admitted request of a window has ended in 500 and the
\* counter still stands at 5.
C10_Witness ==
    \E q \in InFlight :
        /\ Done(q) /\ q.admitted /\ q.resp.status = 500 /\ SameWindow(q)
        /\ q.count = Limit /\ counter[q.client] = Limit

====
